---- MODULE Spec2Model ----
\* Model of video_share.py: GitLFSVideoShare (setup_repository, _run_command,
\* create_player_page, share_video) and main.
\*
\* Strings are sequences of tokens.  A token is one character of a name typed
\* by the user, or a fixed piece of text of the program ("videos", ".html").
\* A path is a sequence of components, each component a string.
EXTENDS Integers, Sequences, FiniteSets, TLC

\* ---------------------------------------------------------------- bounds
MaxLen == 3

\* ------------------------------------------------------------- alphabet
\* one representative per class of character the program distinguishes
Alnum == {"a"}
Alphabet == Alnum \cup {" ", "-", "_", ".", "$", "/"}
Whitespace == {" "}

RECURSIVE StringsUpTo(_)
StringsUpTo(n) ==
    IF n = 0 THEN {<< >>}
    ELSE LET shorter == StringsUpTo(n - 1)
         IN  shorter \cup {Append(s, c) : s \in {t \in shorter : Len(t) = n - 1}, c \in Alphabet}

Inputs == StringsUpTo(MaxLen)

\* ------------------------------------------------------ string helpers
RECURSIVE LStrip(_, _)
LStrip(s, chars) ==
    IF s # << >> /\ Head(s) \in chars THEN LStrip(Tail(s), chars) ELSE s

RECURSIVE RStrip(_, _)
RStrip(s, chars) ==
    IF s # << >> /\ s[Len(s)] \in chars THEN RStrip(SubSeq(s, 1, Len(s) - 1), chars) ELSE s

\* str.strip(): both ends
Strip(s, chars) == RStrip(LStrip(s, chars), chars)

\* index of the last occurrence of c in s, 0 when there is none (str.rfind + 1)
RECURSIVE RFind(_, _)
RFind(s, c) ==
    IF s = << >> THEN 0
    ELSE IF s[Len(s)] = c THEN Len(s)
    ELSE RFind(SubSeq(s, 1, Len(s) - 1), c)

\* s.split("/")
RECURSIVE Split(_, _)
Split(s, c) ==
    LET j == RFind(s, c)
    IN  IF j = 0 THEN << s >>
        ELSE Append(Split(SubSeq(s, 1, j - 1), c), SubSeq(s, j + 1, Len(s)))

\* components of a path string as pathlib keeps them: empty and "." dropped
Parts(s) == SelectSeq(Split(s, "/"), LAMBDA p : p # << >> /\ p # << "." >>)

\* pathlib: Path(s).name
PathName(s) ==
    LET parts == Parts(s)
    IN  IF parts = << >> THEN << >> ELSE parts[Len(parts)]

\* os.path.basename(s): what follows the last "/"
OsBasename(s) == SubSeq(s, RFind(s, "/") + 1, Len(s))

\* pathlib: Path(s).stem  (name without its last suffix)
Stem(s) ==
    LET name == PathName(s)
        j    == RFind(name, ".")
    IN  IF 1 < j /\ j < Len(name) THEN SubSeq(name, 1, j - 1) ELSE name

\* pathlib: base / s   (s holds no "/")
PathJoin(base, s) == base \o Parts(s)

\* what the operating system makes of a path: ".." steps up.  The first
\* component is an anchor (repo_path or the file system's root); << "^" >>
\* stands for a step above repo_path, and the root is its own parent
RECURSIVE OsResolve(_)
OsResolve(path) ==
    IF Len(path) <= 1 THEN path
    ELSE LET front == OsResolve(SubSeq(path, 1, Len(path) - 1))
             last  == path[Len(path)]
         IN  IF last = << ".", "." >>
             THEN IF Len(front) = 1
                  THEN IF front[1] = << "/" >> THEN front ELSE Append(front, << "^" >>)
                  ELSE IF front[Len(front)] = << "^" >> THEN Append(front, << "^" >>)
                  ELSE SubSeq(front, 1, Len(front) - 1)
             ELSE Append(front, last)

\* str(path): the components joined by the platform's separator
RECURSIVE StrPath(_, _)
StrPath(path, sep) ==
    IF path = << >> THEN << >>
    ELSE IF Len(path) = 1 THEN path[1]
    ELSE StrPath(SubSeq(path, 1, Len(path) - 1), sep) \o << sep >> \o path[Len(path)]

\* s.replace(old, new) for one-character old
Replace(s, old, new) == [i \in 1..Len(s) |-> IF s[i] = old THEN new ELSE s[i]]

\* ------------------------------------------------------------ the paths
\* paths are absolute: the first component is repo_path (os.getcwd() in main)
\* or, for a path typed with a leading "/", the file system's root
repo_path == << << "<repo>" >> >>
fs_root == << << "/" >> >>
videos_dir == Append(repo_path, << "videos" >>)
pages_dir == Append(repo_path, << "pages" >>)
qrcodes_dir == Append(repo_path, << "qrcodes" >>)

\* pathlib: path.relative_to(base), for a path below base
RelativeTo(path, base) == SubSeq(path, Len(base) + 1, Len(path))

\* where a path typed by the user leads once the working directory is repo_path
SrcLocation(s) ==
    OsResolve((IF s # << >> /\ Head(s) = "/" THEN fs_root ELSE repo_path) \o Parts(s))

\* what can lie at a typed path: the empty path names nothing, a path of
\* nothing but ".", ".." and "/" is a directory that exists, and a path whose
\* last component is empty, "." or ".." is never a regular file
SrcKinds(s) ==
    LET comps == Split(s, "/")
        last  == comps[Len(comps)]
    IN  IF s = << >> THEN {"absent"}
        ELSE IF \A i \in 1..Len(comps) : comps[i] \in {<< >>, << "." >>, << ".", "." >>}
        THEN {"dir"}
        ELSE IF last \in {<< >>, << "." >>, << ".", "." >>} THEN {"dir", "absent"}
        ELSE {"file", "dir", "absent"}

\* ------------------------------------------------------- the sanitizers
\* c.isalnum()
IsAlnum(c) == c \in Alnum

\* share_video: safe_name; SelectSeq is "".join(c for c in ... if ...)
SafeName(original_name) ==
    Strip(SelectSeq(original_name, LAMBDA c : IsAlnum(c) \/ c \in {" ", "-", "_", "."}), Whitespace)

\* safe_title as it would be with the filter of safe_name (dot kept)
SafeTitleKeepsDot(title) ==
    Strip(SelectSeq(title, LAMBDA c : IsAlnum(c) \/ c \in {" ", "-", "_", "."}), Whitespace)

\* create_player_page: safe_title
SafeTitle(title) ==
    Strip(SelectSeq(title, LAMBDA c : IsAlnum(c) \/ c \in {" ", "-", "_"}), Whitespace)

\* create_player_page: video_relative_path, the src of the page's <source>
VideoRelativePath(title) == << "..", "/", "videos", "/" >> \o SafeTitle(title)

\* create_player_page: page_name
PageName(timestamp, title) == << timestamp, "_" >> \o SafeTitle(title) \o << ".html" >>

\* create_player_page: html_content, as far as it depends on the arguments
HtmlContent(title) == [kind |-> "html", title |-> title, body |-> VideoRelativePath(title)]

\* share_video: repo_url and page_url
repo_url == << "https://estellalin21.github.io/camforu" >>

\* page_url as it would be without the replace of chr(92)
PageUrlNoReplace(relative_path) == repo_url \o << "/" >> \o relative_path

PageUrl(relative_path) == repo_url \o << "/" >> \o Replace(relative_path, "\\", "/")

\* share_video: qr_path
QrPath(name) == Append(qrcodes_dir, Stem(name) \o << "_qr.png" >>)

\* datetime.now().strftime('%Y%m%d_%H%M%S')
Timestamps == {"20240101_120000", "20240101_120001"}

\* ---------------------------------------------------------------- state
VARIABLES
    pc,          \* position of main
    exitCode,    \* exit status of the process once it has ended, -1 before
    outcome,     \* how the run ended
    sep,         \* os.sep of the platform
    dirs,        \* directories that exist
    initDirs,    \* directories that existed before the run
    files,       \* files written by the run: path -> content
    initError,   \* the statement of setup_repository that raised
    osRefused,   \* the statement of setup_repository the operating system refused
    video_path,  \* the path typed at the prompt, stripped
    srcKind,     \* what lies at video_path: "file", "dir" or "absent"
    safe_name,
    target_path,
    copyDest,    \* where shutil.copy2 wrote the video
    page_path,
    page_url,
    qr_path,
    result,      \* the record share_video returned
    gitLog,      \* the git commands run, in order, with their outcome
    stepLog,     \* the steps of share_video executed, in order
    raisedAt,    \* the step of share_video that raised
    console      \* what was printed

vars == << pc, exitCode, outcome, sep, dirs, initDirs, files, initError, osRefused,
           video_path, srcKind, safe_name, target_path, copyDest, page_path,
           page_url, qr_path, result, gitLog, stepLog, raisedAt, console >>

shareVars == << safe_name, target_path, copyDest, page_path, page_url, qr_path, result >>

NoStr == << "<unset>" >>
NoPath == << << "<unset>" >> >>
NoResult == [video_path |-> NoStr, page_path |-> NoStr, page_url |-> NoStr, qr_path |-> NoStr]
NoFiles == [p \in {} |-> [kind |-> "none", title |-> << >>, body |-> << >>]]
Put(f, p, c) == [q \in DOMAIN f \cup {p} |-> IF q = p THEN c ELSE f[q]]

\* the bytes of the source video, and what an interrupted write leaves
VideoContent == [kind |-> "video", title |-> << >>, body |-> << "SRC" >>]
Partial == [kind |-> "partial", title |-> << >>, body |-> << >>]

Init ==
    /\ pc = "setup"
    /\ exitCode = -1
    /\ outcome = "running"
    /\ sep \in {"/", "\\"}
    /\ initDirs \in {{repo_path} \cup d : d \in SUBSET {videos_dir, pages_dir, qrcodes_dir}}
    /\ dirs = initDirs
    /\ files = NoFiles
    /\ initError = "none"
    /\ osRefused = "none"
    /\ video_path = NoStr
    /\ srcKind = "none"
    /\ safe_name = NoStr
    /\ target_path = NoPath
    /\ copyDest = NoPath
    /\ page_path = NoPath
    /\ page_url = NoStr
    /\ qr_path = NoPath
    /\ result = NoResult
    /\ gitLog = << >>
    /\ stepLog = << >>
    /\ raisedAt = "none"
    /\ console = << >>

\* ---------------------------------------------------- setup_repository
\* the directories main relies on
BaseDirs == {videos_dir, pages_dir}

\* Path.mkdir() as it would be without exist_ok
MkdirRaisesNoExistOk(exists, osError) == exists \/ osError

\* Path.mkdir(exist_ok=True): raises when the operating system refuses
\* (osError); a directory that is already there is not an error
MkdirRaises(exists, osError) == osError

\* the statements of the try block, in order
SetupSteps == << "mkdir_videos", "mkdir_pages", "chdir" >>

\* the statement of the try block that raises (4: none)
SetupStop(raisesV, raisesP, raisesC) ==
    IF raisesV THEN 1 ELSE IF raisesP THEN 2 ELSE IF raisesC THEN 3 ELSE 4

\* the directories the try block has made when it stops at statement n
DirsMadeBefore(n) ==
    (IF n > 1 THEN {videos_dir} ELSE {}) \cup (IF n > 2 THEN {pages_dir} ELSE {})

\* GitLFSVideoShare.__init__ and setup_repository, called from main; sys.exit(1)
\* raises SystemExit, which the "except Exception" of main does not catch
SetupRepository ==
    /\ pc = "setup"
    /\ \E osErrV \in BOOLEAN, osErrP \in BOOLEAN, osErrC \in BOOLEAN :
         LET stop == SetupStop(MkdirRaises(videos_dir \in dirs, osErrV),
                               MkdirRaises(pages_dir \in dirs, osErrP),
                               osErrC)
         IN  /\ dirs' = dirs \cup DirsMadeBefore(stop)
             /\ osRefused' = (<< "mkdir_videos", "mkdir_pages", "chdir", "none" >>)[
                                SetupStop(osErrV, osErrP, osErrC)]
             /\ IF stop = 4
                THEN /\ initError' = "none"
                     /\ pc' = "prompt"
                     /\ UNCHANGED << exitCode, outcome, console >>
                ELSE /\ initError' = SetupSteps[stop]
                     /\ console' = Append(console, "setup_failed")
                     /\ pc' = "done"
                     /\ outcome' = "exited"
                     /\ exitCode' = 1
    /\ UNCHANGED << sep, initDirs, files, video_path, srcKind, gitLog, stepLog, raisedAt >>
    /\ UNCHANGED shareVars

\* ------------------------------------------------------------ main
\* main as it would be without the check of os.path.exists
PathExistsUnchecked(kind) == TRUE

\* os.path.exists(video_path)
PathExists(kind) == kind # "absent"

\* main: read the path, strip it, return when nothing is there
Prompt ==
    /\ pc = "prompt"
    /\ \E raw \in Inputs :
         LET typed == Strip(Strip(raw, Whitespace), {"\""})
         IN  \E kind \in SrcKinds(typed) :
               /\ video_path' = typed
               /\ srcKind' = kind
               /\ IF PathExists(kind)
                  THEN /\ pc' = "copy"
                       /\ UNCHANGED << exitCode, outcome, console >>
                  ELSE /\ pc' = "done"
                       /\ outcome' = "not_found"
                       /\ exitCode' = 0
                       /\ console' = Append(console, "not_exist")
    /\ UNCHANGED << sep, dirs, initDirs, files, initError, osRefused, gitLog, stepLog, raisedAt >>
    /\ UNCHANGED shareVars

\* the exit status of a run in which main caught an exception and returned
MainExceptExit == 0

\* share_video as it would be with a rollback of the copy in its except clause
ExceptFilesRollback(fs, dest) == [q \in DOMAIN fs \ {dest} |-> fs[q]]

\* share_video: "except Exception as e: raise Exception(...)" leaves the files
\* alone; the exception reaches main, which prints it and returns
ExceptFiles(fs, dest) == fs

Abort(step, fs) ==
    /\ pc' = "done"
    /\ outcome' = "aborted"
    /\ raisedAt' = step
    /\ exitCode' = MainExceptExit
    /\ console' = Append(console, "share_failed")
    /\ files' = ExceptFiles(fs, copyDest)

\* ------------------------------------------------------------ share_video
\* the statements of share_video in the order of the source
ShareSteps == << "copy", "page", "git_add_video", "git_add_page", "git_commit", "url", "qr" >>

\* share_video as it would be with the URL built before the git commands
NextStepUrlFirst(step) ==
    CASE step = "page" -> "url"
      [] step = "url" -> "git_add_video"
      [] step = "git_add_video" -> "git_add_page"
      [] step = "git_add_page" -> "git_commit"
      [] step = "git_commit" -> "qr"
      [] step = "copy" -> "page"
      [] OTHER -> "done"

\* the position after a step that did not raise
NextStep(step) ==
    LET i == CHOOSE k \in 1..Len(ShareSteps) : ShareSteps[k] = step
    IN  IF i = Len(ShareSteps) THEN "done" ELSE ShareSteps[i + 1]

\* shutil.copy2(src, dst): a dst that is a directory receives the file under
\* the source's base name
CopyTarget(dst, src, ds) ==
    LET at == OsResolve(dst)
    IN  IF at \in ds THEN Append(at, OsBasename(src)) ELSE at

\* shutil.copy2 raises: the source is a directory, source and destination are
\* the same file, the destination is a directory, or the system refuses
CopyRaises(src, kind, to, ds, osError) ==
    \/ kind # "file"
    \/ SrcLocation(src) = to
    \/ to \in ds
    \/ osError

\* share_video: safe_name, target_path and the copy
CopyVideo ==
    /\ pc = "copy"
    /\ stepLog' = Append(stepLog, "copy")
    /\ safe_name' = SafeName(PathName(video_path))
    /\ target_path' = PathJoin(videos_dir, safe_name')
    /\ \E fail \in {"none", "before", "during"} :
         LET to == CopyTarget(target_path', video_path, dirs)
         IN  IF CopyRaises(video_path, srcKind, to, dirs, fail = "before")
             THEN /\ copyDest' = copyDest
                  /\ Abort("copy", files)
             ELSE IF fail = "during"
             THEN /\ copyDest' = copyDest
                  /\ Abort("copy", Put(files, to, Partial))
             ELSE /\ copyDest' = to
                  /\ files' = Put(files, to, VideoContent)
                  /\ pc' = NextStep("copy")
                  /\ UNCHANGED << exitCode, outcome, console, raisedAt >>
    /\ UNCHANGED << sep, dirs, initDirs, initError, osRefused, video_path, srcKind, gitLog >>
    /\ UNCHANGED << page_path, page_url, qr_path, result >>

\* create_player_page(target_path, Path(safe_name).stem)
CreatePlayerPage ==
    /\ pc = "page"
    /\ stepLog' = Append(stepLog, "page")
    /\ \E timestamp \in Timestamps, fail \in {"none", "before", "during"} :
         LET title == Stem(safe_name)
             path  == Append(pages_dir, PageName(timestamp, title))
         IN  IF fail = "before"
             THEN /\ page_path' = page_path
                  /\ Abort("page", files)
             ELSE IF fail = "during"
             THEN /\ page_path' = page_path
                  /\ Abort("page", Put(files, OsResolve(path), Partial))
             ELSE /\ page_path' = path
                  /\ files' = Put(files, OsResolve(path), HtmlContent(title))
                  /\ pc' = NextStep("page")
                  /\ UNCHANGED << exitCode, outcome, console, raisedAt >>
    /\ UNCHANGED << sep, dirs, initDirs, initError, osRefused, video_path, srcKind, gitLog >>
    /\ UNCHANGED << safe_name, target_path, copyDest, page_url, qr_path, result >>

\* _run_command as it would be without its try/except
_run_command_uncaught(ok) == [ret |-> IF ok THEN << "output" >> ELSE << >>, raised |-> ~ok]

\* _run_command: what the caller gets when the command succeeds (ok) or
\* exits non-zero or cannot be started (~ok): the output or "", never an exception
_run_command(ok) == [ret |-> IF ok THEN << "output" >> ELSE << >>, raised |-> FALSE]

\* one call of _run_command in share_video
Git(step, command) ==
    /\ pc = step
    /\ stepLog' = Append(stepLog, step)
    /\ \E ok \in BOOLEAN :
         LET r == _run_command(ok)
         IN  /\ gitLog' = Append(gitLog, [command |-> command, ok |-> ok, ret |-> r.ret])
             /\ IF r.raised
                THEN Abort(step, files)
                ELSE /\ pc' = NextStep(step)
                     /\ console' = IF ok THEN console ELSE Append(console, "command_error")
                     /\ UNCHANGED << exitCode, outcome, files, raisedAt >>
    /\ UNCHANGED << sep, dirs, initDirs, initError, osRefused, video_path, srcKind >>
    /\ UNCHANGED shareVars

GitAddVideo ==
    Git("git_add_video", << "git", "add" >> \o StrPath(target_path, sep))

GitAddPage ==
    Git("git_add_page", << "git", "add" >> \o StrPath(page_path, sep))

GitCommit ==
    Git("git_commit", << "git", "commit", "-m", "Add video: " >> \o safe_name)

\* share_video: relative_path and page_url
BuildUrl ==
    /\ pc = "url"
    /\ stepLog' = Append(stepLog, "url")
    /\ page_url' = PageUrl(StrPath(RelativeTo(page_path, repo_path), sep))
    /\ pc' = NextStep("url")
    /\ UNCHANGED << exitCode, outcome, sep, dirs, initDirs, files, initError, osRefused, video_path,
                    srcKind, gitLog, raisedAt, console >>
    /\ UNCHANGED << safe_name, target_path, copyDest, page_path, qr_path, result >>

\* share_video: the QR code, its directory, its image, and the return
SaveQr ==
    /\ pc = "qr"
    /\ stepLog' = Append(stepLog, "qr")
    /\ \E fail \in {"none", "make", "mkdir", "save_before", "save_during"} :
         LET path == QrPath(safe_name)
             made == dirs \cup {qrcodes_dir}
         IN  CASE fail = "make" ->
                    /\ UNCHANGED << qr_path, dirs, result >>
                    /\ Abort("qr", files)
               [] fail = "mkdir" ->
                    /\ qr_path' = path
                    /\ UNCHANGED << dirs, result >>
                    /\ Abort("qr", files)
               [] fail = "save_before" ->
                    /\ qr_path' = path
                    /\ dirs' = made
                    /\ UNCHANGED result
                    /\ Abort("qr", files)
               [] fail = "save_during" ->
                    /\ qr_path' = path
                    /\ dirs' = made
                    /\ UNCHANGED result
                    /\ Abort("qr", Put(files, OsResolve(path), Partial))
               [] fail = "none" ->
                    /\ qr_path' = path
                    /\ dirs' = made
                    /\ files' = Put(files, OsResolve(path),
                                    [kind |-> "qr", title |-> << >>, body |-> page_url])
                    /\ result' = [video_path |-> StrPath(target_path, sep),
                                  page_path  |-> StrPath(page_path, sep),
                                  page_url   |-> page_url,
                                  qr_path    |-> StrPath(path, sep)]
                    /\ pc' = NextStep("qr")
                    /\ outcome' = "success"
                    /\ exitCode' = 0
                    /\ console' = Append(console, "success")
                    /\ UNCHANGED raisedAt
    /\ UNCHANGED << sep, initDirs, initError, osRefused, video_path, srcKind, gitLog >>
    /\ UNCHANGED << safe_name, target_path, copyDest, page_path, page_url >>

Next ==
    \/ SetupRepository
    \/ Prompt
    \/ CopyVideo
    \/ CreatePlayerPage
    \/ GitAddVideo
    \/ GitAddPage
    \/ GitCommit
    \/ BuildUrl
    \/ SaveQr

Spec == Init /\ [][Next]_vars

TypeOK ==
    /\ pc \in {"setup", "prompt", "copy", "page", "git_add_video", "git_add_page",
               "git_commit", "url", "qr", "done"}
    /\ outcome \in {"running", "exited", "not_found", "aborted", "success"}
    /\ exitCode \in {-1, 0, 1}

\* ---------------------------------------------------------------- claims
Chars(s) == {s[i] : i \in 1..Len(s)}
NoEdgeSpace(s) == s = << >> \/ (s[1] # " " /\ s[Len(s)] # " ")
IsPrefix(s, t) == Len(s) <= Len(t) /\ \A i \in 1..Len(s) : s[i] = t[i]
PageWritten == page_path # NoPath
Copied == copyDest # NoPath

\* C1: once share_video has written the player page, the page's <source> has
\* src "../videos/X" where X is the name of the file that was copied into the
\* videos directory, the sanitized file name with its extension
C1_SourceNamesCopiedFile ==
    PageWritten =>
        files[OsResolve(page_path)].body = << "..", "/", "videos", "/" >> \o safe_name

\* C2: when the copy step of share_video has ended, a file with the source's
\* content lies at videos/<sanitized name>, whatever the file name
C2_CopyAtSanitizedName ==
    Copied =>
        /\ copyDest = Append(videos_dir, safe_name)
        /\ copyDest \in DOMAIN files
        /\ files[copyDest] = VideoContent

\* C3: the copy target videos_dir/<sanitized name> is a file directly inside
\* the videos directory, never that directory itself or a place outside it,
\* and every file a share writes lies directly inside videos/, pages/ or qrcodes/
C3_TargetInsideVideos ==
    /\ Copied =>
         LET at == OsResolve(target_path)
         IN  /\ Len(at) = Len(videos_dir) + 1
             /\ SubSeq(at, 1, Len(videos_dir)) = videos_dir
             /\ at \notin dirs
    /\ \A p \in DOMAIN files :
         /\ Len(p) = Len(repo_path) + 2
         /\ SubSeq(p, 1, Len(repo_path) + 1) \in {videos_dir, pages_dir, qrcodes_dir}

\* C4: the three git commands (add video, add page, commit) run once each in
\* that order whatever their outcomes; a failed one gives "" and raises
\* nothing, and the share goes on to the URL, the QR image and the result
C4_GitFailuresDoNotStop ==
    LET expected == << << "git", "add" >> \o StrPath(target_path, sep),
                       << "git", "add" >> \o StrPath(page_path, sep),
                       << "git", "commit", "-m", "Add video: " >> \o safe_name >>
    IN  /\ Len(gitLog) <= 3
        /\ \A i \in 1..Len(gitLog) :
             /\ gitLog[i].command = expected[i]
             /\ ~gitLog[i].ok => gitLog[i].ret = << >>
        /\ raisedAt \notin {"git_add_video", "git_add_page", "git_commit"}
        /\ pc = "git_add_page" => Len(gitLog) = 1
        /\ pc = "git_commit" => Len(gitLog) = 2
        /\ pc \in {"url", "qr"} => Len(gitLog) = 3
        /\ (pc = "done" /\ gitLog # << >>) =>
             /\ Len(gitLog) = 3
             /\ page_url # NoStr
             /\ raisedAt = "none" =>
                  /\ outcome = "success"
                  /\ result.page_url = page_url
                  /\ OsResolve(qr_path) \in DOMAIN files
                  /\ files[OsResolve(qr_path)].kind = "qr"

C4_AllGitFailedYetShared ==
    /\ outcome = "success"
    /\ Len(gitLog) = 3
    /\ \A i \in 1..3 : ~gitLog[i].ok

\* C5: when nothing lies at the path typed at the prompt, main prints the
\* error and returns: nothing but the two base directories is created, no file
\* is written, no step of share_video and no git command is run
C5_MissingInputTouchesNothing ==
    srcKind = "absent" =>
        /\ pc = "done"
        /\ outcome = "not_found"
        /\ console # << >>
        /\ console[Len(console)] = "not_exist"
        /\ DOMAIN files = {}
        /\ dirs \ initDirs \subseteq {videos_dir, pages_dir}
        /\ gitLog = << >>
        /\ stepLog = << >>

C5_MissingInputSeen ==
    /\ srcKind = "absent"
    /\ pc = "done"
    /\ initDirs = {repo_path}
    /\ dirs = {repo_path, videos_dir, pages_dir}

\* C6: once the copy has succeeded, the copied file stays where it was written
\* with the source's content through the rest of the operation, also when a
\* later step fails
C6_CopyKept ==
    Copied =>
        /\ copyDest \in DOMAIN files
        /\ files[copyDest] = VideoContent

C6_AbortedAfterCopy ==
    /\ Copied
    /\ outcome = "aborted"
    /\ raisedAt = "qr"
    /\ Len(gitLog) = 3
    /\ ~gitLog[3].ok

\* C7: after a successful share, page_url is the base origin, "/pages/" and the
\* file name of the page that was written; it holds no backslash and
\* page_path names the same page file
C7_PageUrlNamesWrittenPage ==
    outcome = "success" =>
        LET name == page_path[Len(page_path)]
        IN  /\ Append(pages_dir, name) \in DOMAIN files
            /\ files[Append(pages_dir, name)].kind = "html"
            /\ result.page_url
                 = << "https://estellalin21.github.io/camforu", "/", "pages", "/" >> \o name
            /\ "\\" \notin Chars(result.page_url)
            /\ result.page_path = StrPath(Append(pages_dir, name), sep)

C7_SharedWithBackslashSeparator ==
    /\ outcome = "success"
    /\ sep = "\\"

\* C8: the sanitized file name holds only alphanumerics, space, hyphen,
\* underscore and dot; the sanitized title in the page file name holds only
\* alphanumerics, space, hyphen and underscore; neither starts or ends with
\* whitespace
C8_SanitizedCharsets ==
    /\ safe_name # NoStr =>
         /\ Chars(safe_name) \subseteq Alnum \cup {" ", "-", "_", "."}
         /\ NoEdgeSpace(safe_name)
    /\ PageWritten =>
         LET name  == page_path[Len(page_path)]
             title == SubSeq(name, 3, Len(name) - 1)
         IN  /\ Chars(title) \subseteq Alnum \cup {" ", "-", "_"}
             /\ NoEdgeSpace(title)

C8_UnsafeNameWithDottedStem ==
    /\ PageWritten
    /\ "$" \in Chars(PathName(video_path))
    /\ "." \in Chars(Stem(safe_name))

\* C9 as stated: setup_repository ends the process with status 1 exactly when
\* creating the videos or the pages directory raises
C9_ExitOnlyOnMkdirError ==
    pc # "setup" =>
        ((exitCode = 1) <=> (osRefused \in {"mkdir_videos", "mkdir_pages"}))

\* C9: setup_repository ends the process with status 1 exactly when creating
\* the videos directory, creating the pages directory or os.chdir raises; a
\* directory that is already there is not an error
C9_ExitOnSetupError ==
    pc # "setup" =>
        /\ (exitCode = 1) <=> (osRefused \in {"mkdir_videos", "mkdir_pages", "chdir"})
        /\ (exitCode = 1) <=> (outcome = "exited")
        /\ initError = osRefused

C9_ChdirRefusedWithDirsPresent ==
    /\ exitCode = 1
    /\ osRefused = "chdir"
    /\ {videos_dir, pages_dir} \subseteq initDirs

\* C10: a share is one run copy, page, git add video, git add page, git commit,
\* URL, QR in that order; it ends in success after all seven steps, or is
\* aborted at the step that raised (copy, page or QR), after which no step
\* runs and main prints the one exception and returns with status 0
C10_LinearRun ==
    LET order == << "copy", "page", "git_add_video", "git_add_page", "git_commit", "url", "qr" >>
    IN  /\ IsPrefix(stepLog, order)
        /\ pc \notin {"setup", "prompt", "done"} => pc = order[Len(stepLog) + 1]
        /\ outcome = "success" =>
             /\ stepLog = order
             /\ raisedAt = "none"
             /\ pc = "done"
             /\ exitCode = 0
        /\ outcome = "aborted" =>
             /\ raisedAt \in {"copy", "page", "qr"}
             /\ stepLog[Len(stepLog)] = raisedAt
             /\ pc = "done"
             /\ exitCode = 0
             /\ Cardinality({i \in 1..Len(console) : console[i] = "share_failed"}) = 1
        /\ raisedAt # "none" => outcome = "aborted"
        /\ (pc = "done" /\ stepLog # << >>) => outcome \in {"success", "aborted"}

C10_AbortedAtPage ==
    /\ outcome = "aborted"
    /\ raisedAt = "page"
====
